---- MODULE Spec2Model ----
(***************************************************************************)
(* Model of src/components/SharedBackground.tsx: the background cache      *)
(* (getCachedBackground / setCachedBackground over one localStorage key),  *)
(* the timed image preload (loadImageWithTimeout), the sequential source   *)
(* iteration (tryLoadImageFromSources) and the BackgroundProvider state    *)
(* machine (initBackground, setLoaded, refreshBackground, effect cleanup). *)
(*                                                                         *)
(* Strings are TLA+ strings: the display value 'gradient:' + expression is *)
(* built with \o and recognised with a prefix test, as the code does.      *)
(* null (string | null results) is the empty string: the code only tests   *)
(* such results for truthiness (`if (result)`, `if (imageUrl)`).           *)
(* The localStorage item is kept in parsed form: form "absent" (getItem    *)
(* returns null), "garbage" (text JSON.parse rejects) or "json" (the text  *)
(* of an object with the fields below; tsNumeric = FALSE when the object   *)
(* carries no numeric timestamp, so that now - timestamp is NaN).          *)
(***************************************************************************)
EXTENDS Integers, Sequences, FiniteSets, TLC

VARIABLES
  backgroundUrl,  \* useState<string>('')            (line 198)
  isLoaded,       \* useState(false)                 (line 199)
  mounted,        \* let mounted = true              (line 202), FALSE after cleanup
  initPc,         \* position of initBackground: "start" | "await" | "done"
  cached,         \* const cached = getCachedBackground()   (line 206)
  data,           \* const data = JSON.parse(cached)        (line 93), as last read
  readNow,        \* const now = Date.now()                (line 94), as last read
  gradient,       \* const gradient = getRandomGradient()   (line 221), "" when
                  \* initBackground is not running
  store,          \* the localStorage item under BG_CACHE_KEY
  storage,        \* behaviour of localStorage: "ok" | "quota" | "unavailable"
  innerWidth,     \* window.innerWidth
  now,            \* the value Date.now() returned last (time line of the model)
  res             \* one record per tryLoadImageFromSources call

vars == <<backgroundUrl, isLoaded, mounted, initPc, cached, data, readNow,
          gradient, store, storage, innerWidth, now, res>>

----------------------------------------------------------------------------
(* Bounds of the model *)

NowStart == 90000000       \* Date.now() at the first state (25 h after origin)
TickMs == 8000             \* the clock advances in steps of this many ms
MaxTicks == 1              \* number of clock steps explored
MaxRefresh == 1            \* number of refreshBackground calls explored

\* Date.now(): the values a handler that runs after the reading `t` may
\* read.  Time that passes between two readings shows only in the later one.
DateNow(t) == {t} \cup {u \in {t + TickMs} : u <= NowStart + MaxTicks * TickMs}

(* Program constants *)

BG_EXPIRE_TIME == 24 * 60 * 60 * 1000
LOAD_TIMEOUT == 8000
MOBILE_BREAKPOINT == 768

FALLBACK_GRADIENTS ==
  << "linear-gradient(135deg, #667eea 0%, #764ba2 100%)",
     "linear-gradient(135deg, #f093fb 0%, #f5576c 100%)",
     "linear-gradient(135deg, #4facfe 0%, #00f2fe 100%)",
     "linear-gradient(135deg, #43e97b 0%, #38f9d7 100%)",
     "linear-gradient(135deg, #fa709a 0%, #fee140 100%)",
     "linear-gradient(135deg, #30cfd0 0%, #330867 100%)",
     "linear-gradient(135deg, #a8edea 0%, #fed6e3 100%)",
     "linear-gradient(135deg, #ff9a9e 0%, #fecfef 100%)",
     "linear-gradient(135deg, #ffecd2 0%, #fcb69f 100%)",
     "linear-gradient(135deg, #ff6e7f 0%, #bfe9ff 100%)" >>

----------------------------------------------------------------------------
(* Strings *)

NullUrl == ""

GRADIENT_PREFIX == "gradient:"

\* String.prototype.startsWith
startsWith(s, p) == Len(s) >= Len(p) /\ SubSeq(s, 1, Len(p)) = p

\* `gradient:${g}`
gradientUrl(g) == GRADIENT_PREFIX \o g

\* SharedBackground: const isGradient = backgroundUrl.startsWith('gradient:')
isGradient(url) == startsWith(url, GRADIENT_PREFIX)

\* SharedBackground: backgroundUrl.replace('gradient:', '') of a gradient value
gradientValue(url) == SubSeq(url, Len(GRADIENT_PREFIX) + 1, Len(url))

----------------------------------------------------------------------------
(* Cache store *)

NullCache ==
  [form |-> "absent", type |-> "", url |-> "", value |-> "",
   timestamp |-> 0, tsNumeric |-> FALSE]

GarbageItem == [NullCache EXCEPT !.form = "garbage"]

\* JSON text of { url, timestamp, type, value }
JsonItem(type, value, timestamp) ==
  [form |-> "json", type |-> type, url |-> value, value |-> value,
   timestamp |-> timestamp, tsNumeric |-> TRUE]

\* now - data.timestamp > BG_EXPIRE_TIME (NaN compares false)
isExpired_Never(t, d) == FALSE
isExpired_AtOrAfter(t, d) == d.tsNumeric /\ t - d.timestamp >= BG_EXPIRE_TIME
isExpired(t, d) == d.tsNumeric /\ t - d.timestamp > BG_EXPIRE_TIME

\* getCachedBackground: the value returned and the store it leaves behind
\* (data is what JSON.parse produced, NullCache when it was not reached;
\* threw tells whether an exception leaves the function: the try/catch of
\* lines 89-105 lets none out)
getCachedBackground_NoCatch(item, mode, t) ==
  IF mode = "unavailable" \/ item.form = "garbage"
    THEN [ret |-> NullCache, store |-> item, data |-> NullCache, threw |-> TRUE]
  ELSE IF item.form = "absent"
    THEN [ret |-> NullCache, store |-> item, data |-> NullCache, threw |-> FALSE]
  ELSE IF isExpired(t, item)
    THEN [ret |-> NullCache, store |-> NullCache, data |-> item, threw |-> FALSE]
  ELSE [ret |-> item, store |-> item, data |-> item, threw |-> FALSE]
getCachedBackground(item, mode, t) ==
  IF mode = "unavailable"                      \* getItem throws, caught
    THEN [ret |-> NullCache, store |-> item, data |-> NullCache, threw |-> FALSE]
  ELSE IF item.form = "absent"                 \* if (!cached) return null
    THEN [ret |-> NullCache, store |-> item, data |-> NullCache, threw |-> FALSE]
  ELSE IF item.form = "garbage"                \* JSON.parse throws, caught
    THEN [ret |-> NullCache, store |-> item, data |-> NullCache, threw |-> FALSE]
  ELSE IF isExpired(t, item)                   \* removeItem, return null
    THEN [ret |-> NullCache, store |-> NullCache, data |-> item, threw |-> FALSE]
  ELSE [ret |-> item, store |-> item, data |-> item, threw |-> FALSE]

\* setCachedBackground: the store after the call and whether an exception
\* leaves the function (setItem throws on a full or unavailable store; the
\* try/catch of lines 112-122 logs it and lets none out)
setCachedBackground_NoCatch(item, mode, type, value, t) ==
  IF mode = "ok" THEN [store |-> JsonItem(type, value, t), threw |-> FALSE]
  ELSE [store |-> item, threw |-> TRUE]
setCachedBackground_Skipped(item, mode, type, value, t) ==
  [store |-> item, threw |-> FALSE]
setCachedBackground(item, mode, type, value, t) ==
  IF mode = "ok" THEN [store |-> JsonItem(type, value, t), threw |-> FALSE]
  ELSE [store |-> item, threw |-> FALSE]

----------------------------------------------------------------------------
(* Fallback gradients *)

\* Math.random() in hundredths: the samples explored
RandomSamples == {37, 99}

\* Math.floor(Math.random() * FALLBACK_GRADIENTS.length), 0-based
randomIndex(r) == (r * Len(FALLBACK_GRADIENTS)) \div 100

\* getRandomGradient: FALLBACK_GRADIENTS[index]
getRandomGradient(r) == FALLBACK_GRADIENTS[randomIndex(r) + 1]

----------------------------------------------------------------------------
(* Image sources *)

isMobile(w) == w < MOBILE_BREAKPOINT

sizeParam(w) == IF isMobile(w) THEN "w=800" ELSE "w=1920"

\* the sources array of tryLoadImageFromSources
sources(w, timestamp) ==
  << "https://loliapi.com/acg/?" \o sizeParam(w) \o "&" \o ToString(timestamp),
     "https://api.vvhan.com/api/wallpaper/acg?type=json&" \o ToString(timestamp),
     "https://api.ixiaowai.cn/api/api.php?" \o ToString(timestamp) >>

NumSources == Len(sources(0, 0))

----------------------------------------------------------------------------
(* loadImageWithTimeout: one preload attempt *)

\* The state the Promise executor leaves behind: listeners installed, the
\* timer armed, the browser fetching img.src.  The timer fires at some
\* moment after its delay; the model does not measure the delay.
newAttempt(url, timeout) ==
  [url |-> url, img |-> "loading", resolved |-> FALSE,
   timer |-> TRUE, delay |-> timeout,
   onload |-> TRUE, onerror |-> TRUE,
   settled |-> FALSE, value |-> NullUrl, resolves |-> 0]

\* cleanup(): clearTimeout, img.onload = null, img.onerror = null
cleanup_KeepsTimer(a) == [a EXCEPT !.onload = FALSE, !.onerror = FALSE]
cleanup(a) == [a EXCEPT !.timer = FALSE, !.onload = FALSE, !.onerror = FALSE]

\* resolve(v) of the Promise: only the first call settles it
resolve(a, v) ==
  [a EXCEPT !.settled = TRUE,
            !.value = IF a.settled THEN a.value ELSE v,
            !.resolves = a.resolves + 1]

handleSuccess(a) ==
  IF a.resolved THEN a
  ELSE resolve(cleanup([a EXCEPT !.resolved = TRUE]), a.url)

handleError(a) ==
  IF a.resolved THEN a
  ELSE resolve(cleanup([a EXCEPT !.resolved = TRUE]), NullUrl)

\* the setTimeout callback
handleTimeout_Ignored(a) == a
handleTimeout(a) ==
  IF a.resolved THEN a
  ELSE resolve(cleanup([a EXCEPT !.resolved = TRUE]), NullUrl)

----------------------------------------------------------------------------
(* tryLoadImageFromSources: one resolution over the source list *)

IdleRes == [pc |-> "idle", width |-> 0, timestamp |-> 0, attempts |-> <<>>,
            result |-> NullUrl]

\* the sources array of the call rr
srcs(rr) == sources(rr.width, rr.timestamp)

\* The call up to its first await: the sources are built and the first
\* preload is started
startResolution(w, t) ==
  [pc |-> "await", width |-> w, timestamp |-> t,
   attempts |-> << newAttempt(sources(w, t)[1], LOAD_TIMEOUT) >>,
   result |-> NullUrl]

current(rr) == rr.attempts[Len(rr.attempts)]

\* `if (result) return result;`
shortCircuits_Never(v) == FALSE
shortCircuits(v) == v # NullUrl

\* index (1-based) of the source the loop takes after n attempts
nextSource(n) == n + 1

\* The loop body after the awaited preload has settled: return its url,
\* start the next source, or return null after the last one.  The Image of
\* the attempt left behind goes out of scope ("detached").
tryLoadStep(rr) ==
  LET v == current(rr).value
      n == Len(rr.attempts)
  IN  IF shortCircuits(v) THEN [rr EXCEPT !.pc = "done", !.result = v]
      ELSE IF n < Len(srcs(rr))
           THEN [rr EXCEPT !.pc = "await",
                           !.attempts = Append([@ EXCEPT ![n].img = "detached"],
                                               newAttempt(srcs(rr)[nextSource(n)],
                                                          LOAD_TIMEOUT))]
           ELSE [rr EXCEPT !.pc = "done", !.result = NullUrl]

----------------------------------------------------------------------------
(* BackgroundProvider *)

InitId == 0
RefreshIds == 1..MaxRefresh
ResIds == {InitId} \cup RefreshIds

\* lines 210-215: the state after adopting a cached record
adoptCached_Ready(c, loaded) ==
  [url |-> IF c.type = "gradient" THEN gradientUrl(c.value) ELSE c.url,
   loaded |-> TRUE]
adoptCached(c, loaded) ==
  IF c.type = "gradient"
  THEN [url |-> gradientUrl(c.value), loaded |-> TRUE]
  ELSE [url |-> c.url, loaded |-> loaded]

\* lines 208-218: `if (cached) { ...; return; }`
returnsOnCache_Never(c) == FALSE
returnsOnCache(c) == c # NullCache

\* lines 223-224: the state after showing the fallback gradient in init
initFallback_NotReady(g, loaded) == [url |-> gradientUrl(g), loaded |-> loaded]
initFallback(g, loaded) == [url |-> gradientUrl(g), loaded |-> TRUE]

\* line 231: `if (imageUrl && mounted)`
initAdopts_Unguarded(imageUrl, m) == TRUE
initAdopts_AfterUnmount(imageUrl, m) == imageUrl # NullUrl
initAdopts(imageUrl, m) == imageUrl # NullUrl /\ m

\* lines 232-233: the state after init adopts the image
initImage_KeepReady(imageUrl, loaded) == [url |-> imageUrl, loaded |-> loaded]
initImage(imageUrl, loaded) == [url |-> imageUrl, loaded |-> FALSE]

\* line 260: the state after refresh adopts the image (isLoaded is not touched)
refreshImage(imageUrl, loaded) == [url |-> imageUrl, loaded |-> loaded]

\* line 250: setIsLoaded(true)
setLoadedState_Toggle(loaded) == ~loaded
setLoadedState(loaded) == TRUE

\* lines 265-267: the state after refresh falls back to a gradient
refreshFallback_NotReady(g, loaded) == [url |-> gradientUrl(g), loaded |-> loaded]
refreshFallback(g, loaded) == [url |-> gradientUrl(g), loaded |-> TRUE]

----------------------------------------------------------------------------
(* Initial state: the provider is rendered, its effect has not run yet.    *)
(* The store holds what an earlier session or another script left there.   *)

HourMs == 60 * 60 * 1000

\* a record without a numeric timestamp
UntimedItem ==
  [JsonItem("gradient", FALLBACK_GRADIENTS[3], 0) EXCEPT !.tsNumeric = FALSE]

\* records written by setCachedBackground `age` ms before the first state
GradientItem(age) == JsonItem("gradient", FALLBACK_GRADIENTS[2], NowStart - age)
ImageItem(age) == JsonItem("image", sources(1920, NowStart - age)[1], NowStart - age)

InitialItems ==
  { NullCache, GarbageItem, UntimedItem,
    GradientItem(HourMs), GradientItem(BG_EXPIRE_TIME), GradientItem(25 * HourMs),
    ImageItem(HourMs), ImageItem(BG_EXPIRE_TIME + 1) }

\* The sessions explored: a choice of initial items on a working store, on
\* a store whose setItem throws ("quota") and on a store that throws on
\* every access ("unavailable"), on a desktop or a mobile viewport
InitialConfigs ==
  { [store |-> i, storage |-> "ok", innerWidth |-> 1920] :
      i \in InitialItems \ {NullCache, GradientItem(25 * HourMs)} }
  \cup { [store |-> NullCache, storage |-> "ok", innerWidth |-> 375] }
  \cup { [store |-> i, storage |-> "quota", innerWidth |-> 1920] :
           i \in {GradientItem(25 * HourMs), ImageItem(HourMs)} }
  \cup { [store |-> GradientItem(HourMs), storage |-> "unavailable",
          innerWidth |-> 375] }

Init ==
  /\ backgroundUrl = ""
  /\ isLoaded = FALSE
  /\ mounted = FALSE
  /\ initPc = "start"
  /\ cached = NullCache
  /\ data = NullCache
  /\ readNow = 0
  /\ gradient = ""
  /\ \E c \in InitialConfigs :
       /\ store = c.store
       /\ storage = c.storage
       /\ innerWidth = c.innerWidth
  /\ now = NowStart
  /\ res = [r \in ResIds |-> IdleRes]

----------------------------------------------------------------------------
(* Actions.  A handler runs to completion together with the promise        *)
(* continuations it makes runnable: the event loop runs the microtasks of  *)
(* an await before it takes the next event, timer or React callback.       *)
(* A handler that calls Date.now() reads the clock once (DateNow).         *)

\* useEffect body: mounted = true, then initBackground() up to its first
\* await (lines 202-230, 242)
Mount ==
  /\ initPc = "start"
  /\ mounted' = TRUE
  /\ \E t \in DateNow(now) :
     LET rd == getCachedBackground(store, storage, t) IN
       /\ now' = t
       /\ IF rd.threw
          THEN \* the exception leaves initBackground at line 206
               /\ initPc' = "done"
               /\ UNCHANGED <<backgroundUrl, isLoaded, cached, data, readNow,
                              gradient, store, res>>
          ELSE /\ cached' = rd.ret
               /\ data' = rd.data
               /\ readNow' = t
               /\ IF returnsOnCache(rd.ret)
                  THEN LET st == adoptCached(rd.ret, isLoaded) IN
                       /\ backgroundUrl' = st.url
                       /\ isLoaded' = st.loaded
                       /\ store' = rd.store
                       /\ initPc' = "done"
                       /\ UNCHANGED <<gradient, res>>
                  ELSE \E rnd \in RandomSamples :
                       LET g == getRandomGradient(rnd)
                           st == initFallback(g, isLoaded)
                           wr == setCachedBackground(rd.store, storage,
                                                     "gradient", g, t) IN
                       /\ backgroundUrl' = st.url
                       /\ isLoaded' = st.loaded
                       /\ store' = wr.store
                       /\ IF wr.threw
                          THEN \* the exception leaves initBackground at line 225
                               /\ initPc' = "done"
                               /\ UNCHANGED <<gradient, res>>
                          ELSE /\ gradient' = g
                               /\ res' = [res EXCEPT ![InitId] =
                                            startResolution(innerWidth, t)]
                               /\ initPc' = "await"
  /\ UNCHANGED <<storage, innerWidth>>

\* initBackground resumes after its await with the resolution rr, which has
\* returned (lines 230-239)
InitResume(rr) ==
  /\ res' = [res EXCEPT ![InitId] = rr]
  /\ initPc' = "done"
  /\ gradient' = ""
  /\ IF initAdopts(rr.result, mounted)
     THEN LET st == initImage(rr.result, isLoaded) IN
          \E t \in DateNow(now) :
          /\ now' = t
          /\ backgroundUrl' = st.url
          /\ isLoaded' = st.loaded
          \* an exception of the write would be caught at line 236
          /\ store' = setCachedBackground(store, storage, "image", rr.result, t).store
     ELSE UNCHANGED <<backgroundUrl, isLoaded, store, now>>

\* refreshBackground call r resumes after its await with the resolution rr,
\* which has returned (lines 259-268)
RefreshResume(r, rr) ==
  /\ res' = [res EXCEPT ![r] = rr]
  /\ UNCHANGED <<initPc, gradient>>
  /\ \E t \in DateNow(now) :
     /\ now' = t
     /\ IF rr.result # NullUrl
        THEN LET st == refreshImage(rr.result, isLoaded) IN
             /\ backgroundUrl' = st.url
             /\ isLoaded' = st.loaded
             /\ store' = setCachedBackground(store, storage, "image", rr.result, t).store
        ELSE \E rnd \in RandomSamples :
             LET g == getRandomGradient(rnd)
                 st == refreshFallback(g, isLoaded)
                 wr == setCachedBackground(store, storage, "gradient", g, t) IN
             /\ backgroundUrl' = st.url
             \* an exception of the write would skip line 267
             /\ isLoaded' = IF wr.threw THEN isLoaded ELSE st.loaded
             /\ store' = wr.store

\* Attempt k of resolution r becomes a: if that settles the preload the loop
\* awaits, the loop takes its next step (lines 185-194) and, when it
\* returns, its caller resumes
Deliver(r, k, a) ==
  LET rr == [res[r] EXCEPT !.attempts[k] = a] IN
  /\ IF res[r].pc = "await" /\ k = Len(res[r].attempts) /\ a.settled
     THEN IF tryLoadStep(rr).pc = "done"
          THEN IF r = InitId THEN InitResume(tryLoadStep(rr))
               ELSE RefreshResume(r, tryLoadStep(rr))
          ELSE /\ res' = [res EXCEPT ![r] = tryLoadStep(rr)]
               /\ UNCHANGED <<backgroundUrl, isLoaded, store, initPc, gradient, now>>
     ELSE /\ res' = [res EXCEPT ![r] = rr]
          /\ UNCHANGED <<backgroundUrl, isLoaded, store, initPc, gradient, now>>
  /\ UNCHANGED <<mounted, cached, data, readNow, storage, innerWidth>>

\* The browser finishes fetching the image of attempt k: the load event
\* reaches img.onload if it is still installed
ImageLoads(r, k) ==
  /\ k \in DOMAIN res[r].attempts
  /\ res[r].attempts[k].img = "loading"
  /\ LET a == [res[r].attempts[k] EXCEPT !.img = "loaded"] IN
       Deliver(r, k, IF a.onload THEN handleSuccess(a) ELSE a)

\* The fetch of attempt k fails: the error event reaches img.onerror if it
\* is still installed
ImageFails(r, k) ==
  /\ k \in DOMAIN res[r].attempts
  /\ res[r].attempts[k].img = "loading"
  /\ LET a == [res[r].attempts[k] EXCEPT !.img = "error"] IN
       Deliver(r, k, IF a.onerror THEN handleError(a) ELSE a)

\* The pending timer of attempt k fires
TimerFires(r, k) ==
  /\ k \in DOMAIN res[r].attempts
  /\ res[r].attempts[k].timer
  /\ LET a == [res[r].attempts[k] EXCEPT !.timer = FALSE] IN
       Deliver(r, k, handleTimeout(a))

\* setLoaded (lines 249-251), invoked by a consumer of the mounted provider
SetLoaded ==
  /\ mounted
  /\ isLoaded' = setLoadedState(isLoaded)
  /\ UNCHANGED <<backgroundUrl, mounted, initPc, cached, data, readNow,
                 gradient, store, storage, innerWidth, now, res>>

\* refreshBackground up to its await (lines 253-257), invoked by a consumer
\* of the mounted provider; r is the next unused call number
RefreshStart(r) ==
  /\ mounted
  /\ res[r].pc = "idle"
  /\ \A q \in RefreshIds : q < r => res[q].pc # "idle"
  /\ isLoaded' = FALSE
  /\ \E t \in DateNow(now) :
       /\ now' = t
       /\ res' = [res EXCEPT ![r] = startResolution(innerWidth, t)]
  /\ UNCHANGED <<backgroundUrl, mounted, initPc, cached, data, readNow,
                 gradient, store, storage, innerWidth>>

\* The effect's cleanup (lines 244-246)
Unmount ==
  /\ mounted
  /\ mounted' = FALSE
  /\ UNCHANGED <<backgroundUrl, isLoaded, initPc, cached, data, readNow,
                 gradient, store, storage, innerWidth, now, res>>

Next ==
  \/ Mount
  \/ \E r \in ResIds : \E k \in 1..NumSources : ImageLoads(r, k)
  \/ \E r \in ResIds : \E k \in 1..NumSources : ImageFails(r, k)
  \/ \E r \in ResIds : \E k \in 1..NumSources : TimerFires(r, k)
  \/ SetLoaded
  \/ \E r \in RefreshIds : RefreshStart(r)
  \/ Unmount

Spec == Init /\ [][Next]_vars

----------------------------------------------------------------------------
(* Vocabulary of the properties *)

Palette == { FALLBACK_GRADIENTS[i] : i \in 1..Len(FALLBACK_GRADIENTS) }

isImage(url) == url # "" /\ ~isGradient(url)

\* initBackground has run its synchronous part
initRan == initPc # "start"

\* this step is the synchronous part of initBackground
MountStep == initPc = "start" /\ initPc' # "start"

\* this step resumes the caller of resolution r after its await
ResumeStep(r) == res[r].pc = "await" /\ res'[r].pc = "done"

Unsettled(rr) == { k \in 1..Len(rr.attempts) : ~rr.attempts[k].settled }

----------------------------------------------------------------------------
(* C1: when the cache read of an initialization returns no record, the     *)
(* same step shows 'gradient:' + one of the 10 palette entries, sets       *)
(* isLoaded, and writes that gradient to the cache as a record of type     *)
(* 'gradient' (on a store that accepts the write); no preload has settled  *)
(* at that point.                                                          *)
C1_FallbackShownAtOnce ==
  [][ (MountStep /\ cached' = NullCache) =>
        /\ Cardinality(Palette) = 10
        /\ \E g \in Palette :
             /\ backgroundUrl' = gradientUrl(g)
             /\ storage = "ok" => store' = JsonItem("gradient", g, now')
        /\ isLoaded'
        /\ \A r \in ResIds : Unsettled(res'[r]) = 1..Len(res'[r].attempts)
        /\ res'[InitId].pc = "await" ]_vars

C1_Witness ==
  /\ initPc = "await" /\ cached = NullCache
  /\ backgroundUrl = gradientUrl(gradient) /\ gradient \in Palette
  /\ isLoaded
  /\ store = JsonItem("gradient", gradient, now)
  /\ res[InitId].pc = "await" /\ Unsettled(res[InitId]) = {1}

(* C2: a resolution attempts the sources in declared order, one preload    *)
(* in flight at a time, each new attempt only after the one before it gave *)
(* no result; when source i succeeds the resolution returns that source's  *)
(* url and attempts no further source.                                     *)
C2_OrderedShortCircuit ==
  \A r \in ResIds :
    LET rr == res[r]
        n  == Len(rr.attempts) IN
    rr.pc # "idle" =>
      /\ n \in 1..NumSources
      /\ \A k \in 1..n : rr.attempts[k].url = srcs(rr)[k]
      /\ \A k \in 1..(n - 1) :
           rr.attempts[k].settled /\ rr.attempts[k].value = NullUrl
      /\ Cardinality(Unsettled(rr)) <= 1
      /\ \A k \in 1..n :
           rr.attempts[k].value # NullUrl =>
             k = n /\ rr.pc = "done" /\ rr.result = srcs(rr)[k]
      /\ (rr.pc = "done" /\ rr.result = NullUrl) => n = NumSources

C2_Witness ==
  \E r \in ResIds :
    /\ res[r].pc = "done"
    /\ Len(res[r].attempts) = 2
    /\ res[r].attempts[1].value = NullUrl
    /\ res[r].result = srcs(res[r])[2]
    /\ res[r].result # NullUrl

(* C3: when a refreshBackground call finishes, isLoaded is true if the     *)
(* call fell back to a gradient and false if it adopted an image.          *)
C3_Original ==
  [][ \A r \in RefreshIds :
        ResumeStep(r) =>
          IF res'[r].result = NullUrl THEN isLoaded' ELSE ~isLoaded' ]_vars

(* C4: after the effect's cleanup no continuation resumed after an await,  *)
(* of initBackground or of refreshBackground, changes backgroundUrl or     *)
(* isLoaded.                                                               *)
C4_Original ==
  [][ \A r \in ResIds :
        (initRan /\ ~mounted /\ ResumeStep(r)) =>
          (backgroundUrl' = backgroundUrl /\ isLoaded' = isLoaded) ]_vars

C6_Original ==
  (initRan /\ isGradient(backgroundUrl)) => isLoaded

(* C6: once initBackground has run its synchronous part, a gradient        *)
(* display value comes with isLoaded true unless a refreshBackground call  *)
(* is in flight.                                                           *)
C6_GradientReadyOutsideRefresh ==
  (initRan /\ isGradient(backgroundUrl)
     /\ \A r \in RefreshIds : res[r].pc # "await") => isLoaded

C6_Witness ==
  \E r \in RefreshIds :
    /\ res[r].pc = "done" /\ res[r].result = NullUrl
    /\ isGradient(backgroundUrl) /\ gradientValue(backgroundUrl) \in Palette
    /\ isLoaded
    /\ initPc = "await" /\ backgroundUrl # gradientUrl(gradient)

(* C7: isLoaded becomes true for an image only by setLoaded(): a step that *)
(* leaves an image displayed with isLoaded true, where the image was not   *)
(* already displayed with isLoaded true, is a setLoaded() step (it changes *)
(* isLoaded and nothing else).                                             *)
C7_Original ==
  [][ ( /\ isImage(backgroundUrl') /\ isLoaded'
        /\ ~(backgroundUrl = backgroundUrl' /\ isLoaded) ) =>
      ( /\ backgroundUrl' = backgroundUrl
        /\ UNCHANGED <<mounted, initPc, cached, data, readNow, gradient, store,
                       storage, innerWidth, now, res>> ) ]_vars

(* C8: a record read more than 24 hours after its timestamp is not         *)
(* returned and does not stay in the store; initBackground goes on as on a *)
(* cache miss (fallback gradient shown, resolution started).               *)
C8_ExpiredNotReturned ==
  ( /\ initRan
    /\ data.form = "json" /\ data.tsNumeric
    /\ readNow - data.timestamp > 24 * HourMs ) =>
  ( /\ cached = NullCache
    /\ store # data
    /\ storage = "quota" => store = NullCache
    /\ storage = "ok" => store.timestamp >= readNow
    /\ initPc = "await" => gradient \in Palette
    /\ res[InitId].pc # "idle" )

C8_Witness ==
  /\ initRan
  /\ data = GradientItem(25 * HourMs)
  /\ storage = "quota"
  /\ cached = NullCache
  /\ store = NullCache
  /\ isGradient(backgroundUrl)

(* C9: when the resolution of initBackground returns no image, the         *)
(* resuming step changes neither backgroundUrl, isLoaded nor the store;    *)
(* if no refreshBackground was called, the gradient shown before the fetch *)
(* is still displayed with isLoaded true and the store holds that gradient *)
(* and no record of type 'image'.                                          *)
C9_FailedFetchKeepsGradient ==
  [][ (ResumeStep(InitId) /\ res'[InitId].result = NullUrl) =>
        /\ UNCHANGED <<backgroundUrl, isLoaded, store>>
        /\ (\A r \in RefreshIds : res[r].pc = "idle") =>
             /\ backgroundUrl' = gradientUrl(gradient)
             /\ isLoaded'
             /\ storage = "ok" =>
                  (store'.type = "gradient" /\ store'.value = gradient)
             /\ storage = "quota" => store'.type # "image" ]_vars

C9_Witness ==
  /\ initPc = "done" /\ cached = NullCache
  /\ res[InitId].pc = "done" /\ res[InitId].result = NullUrl
  /\ Len(res[InitId].attempts) = NumSources
  /\ \A r \in RefreshIds : res[r].pc = "idle"
  /\ isGradient(backgroundUrl) /\ isLoaded
  /\ store.type = "gradient" /\ backgroundUrl = gradientUrl(store.value)

(* C10: when the resolution of initBackground returns a url while the      *)
(* provider is mounted, the resuming step sets backgroundUrl to that url,  *)
(* sets isLoaded to false and writes a record of type 'image' with that    *)
(* url (on a store that accepts the write).                                *)
C10_InitAdoptsImage ==
  [][ (ResumeStep(InitId) /\ res'[InitId].result # NullUrl /\ mounted) =>
        /\ backgroundUrl' = res'[InitId].result
        /\ ~isLoaded'
        /\ storage = "ok" => store' = JsonItem("image", res'[InitId].result, now')
        /\ storage # "ok" => store' = store ]_vars

C10_Witness ==
  /\ initPc = "done" /\ mounted
  /\ res[InitId].pc = "done" /\ res[InitId].result # NullUrl
  /\ backgroundUrl = res[InitId].result
  /\ ~isLoaded
  /\ store.type = "image" /\ store.value = backgroundUrl

(* C11: when the provider was unmounted before the resolution of           *)
(* initBackground finished, the resuming step changes neither              *)
(* backgroundUrl, nor isLoaded, nor the stored record, also when the       *)
(* resolution returned a url.                                              *)
C11_UnmountedInitKeepsGradient ==
  [][ (ResumeStep(InitId) /\ ~mounted) =>
        UNCHANGED <<backgroundUrl, isLoaded, store>> ]_vars

C11_Witness ==
  /\ initPc = "done" /\ ~mounted
  /\ res[InitId].pc = "done" /\ res[InitId].result # NullUrl
  /\ \A r \in RefreshIds : res[r].pc = "idle"
  /\ isGradient(backgroundUrl) /\ gradientValue(backgroundUrl) \in Palette
  /\ storage = "ok" /\ store.type = "gradient"
  /\ backgroundUrl = gradientUrl(store.value)

(* C12: when initBackground finds a record that getCachedBackground        *)
(* returns, it adopts it: for a record of type 'gradient' backgroundUrl    *)
(* becomes 'gradient:' + value and isLoaded becomes true in that step; for *)
(* a record of type 'image' backgroundUrl becomes the record's url and     *)
(* isLoaded is false, and while that url stays displayed only a step of    *)
(* setLoaded (one that changes nothing but isLoaded) makes isLoaded true.  *)
C12_AdoptsCachedRecord ==
  [][ /\ (MountStep /\ cached' # NullCache) =>
           IF cached'.type = "gradient"
             THEN backgroundUrl' = gradientUrl(cached'.value) /\ isLoaded'
             ELSE backgroundUrl' = cached'.url /\ ~isLoaded'
      /\ ( /\ initRan /\ cached.type = "image"
           /\ backgroundUrl = cached.url /\ backgroundUrl' = backgroundUrl
           /\ ~isLoaded /\ isLoaded' ) =>
           /\ mounted
           /\ UNCHANGED <<backgroundUrl, mounted, initPc, cached, data, readNow,
                          gradient, store, storage, innerWidth, now, res>> ]_vars

C12_Witness ==
  /\ initPc = "done" /\ mounted
  /\ cached = ImageItem(HourMs)
  /\ backgroundUrl = cached.url /\ ~isLoaded
  /\ store = cached
  /\ res[InitId].pc = "idle"

C14_Original ==
  (initRan /\ data.form = "json" /\ data.tsNumeric
     /\ readNow - data.timestamp >= 86400000) => cached = NullCache

(* C14 (amended): a parsed record with a numeric timestamp is returned by  *)
(* getCachedBackground exactly when its age now - timestamp is at most     *)
(* 86,400,000 ms: at an age of exactly 24 hours it is still returned, one  *)
(* millisecond later it is not.                                            *)
C14_ValidUpToExpireTime ==
  (initRan /\ data.form = "json" /\ data.tsNumeric) =>
     (cached = data <=> readNow - data.timestamp <= 86400000)
     /\ (cached = NullCache <=> readNow - data.timestamp >= 86400001)

C14_Witness ==
  /\ initRan
  /\ data.form = "json" /\ data.tsNumeric
  /\ readNow - data.timestamp = 86400000
  /\ cached = data /\ store = data
  /\ backgroundUrl = gradientUrl(cached.value) /\ isLoaded

(* C15: no exception leaves getCachedBackground: when the store cannot be  *)
(* read (getItem throws) or the item is not valid JSON (JSON.parse         *)
(* throws), initBackground sees no cached record and goes on exactly as on *)
(* a miss: it shows a gradient of the palette with isLoaded true, and      *)
(* starts the image resolution.                                            *)
C15_ReadFailureIsMiss ==
  [][ ( /\ MountStep
        /\ storage = "unavailable" \/ store.form = "garbage" ) =>
        /\ cached' = NullCache
        /\ isGradient(backgroundUrl')
        /\ gradientValue(backgroundUrl') \in Palette
        /\ isLoaded'
        /\ initPc' = "await" /\ res'[InitId].pc = "await" ]_vars

C15_Witness ==
  /\ storage = "unavailable" /\ store = GradientItem(HourMs)
  /\ initPc = "await" /\ cached = NullCache
  /\ isGradient(backgroundUrl) /\ gradientValue(backgroundUrl) \in Palette
  /\ isLoaded
  /\ res[InitId].pc = "await"

(* C16: no exception leaves setCachedBackground, and on a store that       *)
(* refuses the write (setItem throws) the steps around the write do what   *)
(* they do on a working store: on a miss initBackground shows the palette  *)
(* gradient with isLoaded true and starts the resolution; when its         *)
(* resolution returns a url while mounted it shows the url with isLoaded   *)
(* false; refreshBackground shows the url it got, or else a palette        *)
(* gradient with isLoaded true. The store itself is left as the read left  *)
(* it.                                                                     *)
C16_WriteFailureKeepsFlow ==
  [][ storage # "ok" =>
        /\ (MountStep /\ cached' = NullCache) =>
             /\ isGradient(backgroundUrl')
             /\ gradientValue(backgroundUrl') \in Palette
             /\ isLoaded'
             /\ gradient' = gradientValue(backgroundUrl')
             /\ initPc' = "await" /\ res'[InitId].pc = "await"
             /\ store' = getCachedBackground(store, storage, now').store
        /\ (ResumeStep(InitId) /\ res'[InitId].result # NullUrl /\ mounted) =>
             /\ backgroundUrl' = res'[InitId].result
             /\ ~isLoaded'
             /\ store' = store
        /\ \A r \in RefreshIds :
             ResumeStep(r) =>
               /\ store' = store
               /\ IF res'[r].result # NullUrl
                    THEN backgroundUrl' = res'[r].result /\ isLoaded' = isLoaded
                    ELSE /\ isGradient(backgroundUrl')
                         /\ gradientValue(backgroundUrl') \in Palette
                         /\ isLoaded' ]_vars

C16_Witness ==
  /\ storage = "quota" /\ store = NullCache
  /\ data = GradientItem(25 * HourMs)
  /\ initPc = "done" /\ mounted
  /\ res[InitId].pc = "done" /\ res[InitId].result # NullUrl
  /\ \E r \in RefreshIds :
       /\ res[r].pc = "done" /\ res[r].result = NullUrl
       /\ isGradient(backgroundUrl) /\ isLoaded

(* C17: setLoaded is idempotent: after a step of setLoaded (a step of the  *)
(* mounted provider that changes isLoaded and nothing else), invoking      *)
(* setLoaded again would leave isLoaded as that step left it, and the step *)
(* leaves backgroundUrl alone.                                             *)
C17_SetLoadedIdempotent ==
  [][ ( /\ mounted /\ isLoaded' # isLoaded
        /\ UNCHANGED <<mounted, initPc, cached, data, readNow, gradient,
                       store, storage, innerWidth, now, res>> ) =>
        /\ isLoaded' = setLoadedState(isLoaded)
        /\ setLoadedState(isLoaded') = isLoaded'
        /\ backgroundUrl' = backgroundUrl ]_vars

C17_Witness ==
  /\ initPc = "done" /\ mounted
  /\ cached = ImageItem(HourMs) /\ backgroundUrl = cached.url
  /\ res[InitId].pc = "idle"
  /\ \A r \in RefreshIds : res[r].pc = "idle"
  /\ isLoaded

(* C18: every attempt of loadImageWithTimeout settles at most once, by the *)
(* first of its three events: with its url when that event is the load of  *)
(* the image, with null when it is the error or the timer. Once settled    *)
(* its timer is cleared and onload/onerror are removed, and no later step  *)
(* (a late load or error event among them) changes the settled value or    *)
(* settles it again.                                                       *)
C18_SettlesOnce ==
  [][ \A r \in ResIds : \A k \in DOMAIN res'[r].attempts :
        LET b == res'[r].attempts[k] IN
        /\ b.resolves <= 1
        /\ b.settled <=> b.resolves = 1
        /\ b.settled <=> b.resolved
        /\ b.settled => ~b.timer /\ ~b.onload /\ ~b.onerror
        /\ ~b.settled => b.timer /\ b.onload /\ b.onerror /\ b.value = NullUrl
        /\ k \in DOMAIN res[r].attempts =>
             LET a == res[r].attempts[k] IN
             /\ a.settled =>
                  b.settled /\ b.value = a.value /\ b.resolves = a.resolves
             /\ (~a.settled /\ b.settled) =>
                  b.value = IF a.img = "loading" /\ b.img = "loaded"
                              THEN b.url ELSE NullUrl ]_vars

C18_Witness ==
  \E r \in ResIds : \E k \in DOMAIN res[r].attempts :
    LET a == res[r].attempts[k] IN
    /\ a.settled /\ a.resolves = 1 /\ a.value = NullUrl
    /\ a.img = "loaded"
    /\ ~a.timer /\ ~a.onload /\ ~a.onerror
    /\ res[r].pc = "done" /\ res[r].result = NullUrl

(* The provider under the assumption that started timers fire: as long as  *)
(* some setTimeout of an attempt is pending, the event loop eventually     *)
(* runs one of the pending callbacks. A pending timer stays pending until  *)
(* it fires or is cleared, and there are finitely many, so this is what    *)
(* "every timer that stays pending eventually fires" gives. Nothing is     *)
(* assumed about load and error events. Whether a resolution ends depends  *)
(* neither on the stored record nor on the clock, so the provider starts   *)
(* on an empty working store with the clock at its last modelled instant.  *)
InitTimers ==
  /\ backgroundUrl = ""
  /\ isLoaded = FALSE
  /\ mounted = FALSE
  /\ initPc = "start"
  /\ cached = NullCache
  /\ data = NullCache
  /\ readNow = 0
  /\ gradient = ""
  /\ store = NullCache
  /\ storage = "ok"
  /\ innerWidth \in {375, 1920}
  /\ now = NowStart + MaxTicks * TickMs
  /\ res = [r \in ResIds |-> IdleRes]

SpecTimers ==
  /\ InitTimers
  /\ [][Next]_vars
  /\ WF_vars(\E r \in ResIds : \E k \in 1..NumSources : TimerFires(r, k))

(* C19: if every started timer eventually fires, every resolution that was *)
(* started eventually ends, having made at most one attempt per source,    *)
(* with the url of the attempt that loaded or with null after all three    *)
(* sources, whether or not any load or error event ever arrives.           *)
C19_ResolutionTerminates ==
  \A r \in ResIds :
    (res[r].pc = "await") ~>
      ( /\ res[r].pc = "done"
        /\ Len(res[r].attempts) <= NumSources
        /\ \/ res[r].result = res[r].attempts[Len(res[r].attempts)].url
           \/ /\ res[r].result = NullUrl
              /\ Len(res[r].attempts) = NumSources )

C19_Witness ==
  \E r \in ResIds :
    /\ res[r].pc = "done" /\ res[r].result = NullUrl
    /\ Len(res[r].attempts) = NumSources
    /\ \A k \in DOMAIN res[r].attempts :
         /\ res[r].attempts[k].settled /\ res[r].attempts[k].value = NullUrl
         /\ res[r].attempts[k].img \in {"loading", "detached"}
    /\ res[r].attempts[NumSources].img = "loading"

(* C20: while the provider is mounted on a store that accepts writes, once *)
(* initBackground has run the stored record mirrors the display: the       *)
(* record has type 'gradient' exactly when backgroundUrl starts with       *)
(* 'gradient:', and its value is the displayed gradient expression or the  *)
(* displayed image url.                                                    *)
C20_RecordMirrorsDisplay ==
  (initRan /\ mounted /\ storage = "ok") =>
     /\ store.form = "json"
     /\ store.type = "gradient" <=> isGradient(backgroundUrl)
     /\ store.type \in {"gradient", "image"}
     /\ IF isGradient(backgroundUrl)
          THEN backgroundUrl = gradientUrl(store.value)
          ELSE backgroundUrl = store.value

C20_Witness ==
  /\ mounted /\ storage = "ok" /\ initPc = "done"
  /\ \E r \in RefreshIds :
       /\ res[r].pc = "done" /\ res[r].result # NullUrl
       /\ backgroundUrl = res[r].result
  /\ store.type = "image" /\ store.value = backgroundUrl
  /\ cached.type = "gradient"

====
